---------------------------- MODULE Spec2Model ----------------------------
(***************************************************************************)
(* A model of sniperX: the position ledger (balance_manager.py), the buy   *)
(* fill simulation (polymarket_client.py), and main's loop with its sell   *)
(* timers and its walk over the bids (main.py, ping_server.py).            *)
(*                                                                         *)
(* Spec        callers of record_buy / record_sell, each call run to its   *)
(*             return.                                                     *)
(* SpecStop    the same, and the process may be stopped between a call's   *)
(*             save_balance and its append_trade_history.                  *)
(* SpecBuySim  one call of the buy simulation on a drawn budget and book.  *)
(* SpecSellSim one walk over the bids for a drawn position and bid list.   *)
(* SpecEngine  main's loop, one step per token of each of its two for      *)
(*             loops, with the ping handler and the clock running          *)
(*             alongside; main is the only writer of the ledger.           *)
(* SpecCrash   SpecStop, and the process may also be stopped inside        *)
(*             save_balance, between the open and the close of the file.   *)
(* SpecConcurrent  two callers of the ledger at once, each a load step and *)
(*             a save step.                                                *)
(* SpecPing    /ping handlers on their own threads, each a read and a      *)
(*             store of the count, with main reading the count.            *)
(* SpecLive    main's loop as in SpecEngine with every fetch returning a   *)
(*             book, and the loop, the clock and the poll kept running.    *)
(* SpecPayloads  /ping handlers on their own threads, each a count, an     *)
(*             append to the payloads and the trim to the last 50.         *)
(*                                                                         *)
(* balance.yaml holds decimal numerals: save_balance writes each float as  *)
(* its shortest numeral that reads back as the float, load_balance rounds  *)
(* each numeral to the nearest float.                                      *)
(*                                                                         *)
(* Numbers.  The program computes in Python floats (IEEE-754 binary64,     *)
(* round to nearest, ties to even).  The model keeps the arithmetic and    *)
(* narrows the format: a number is an integer count of 2^-FracBits units,  *)
(* and every operation is rounded to Precision significant bits, ties to   *)
(* even, with gradual underflow below 2^(Precision-1) units.  The laws the *)
(* program relies on (x - x = 0, x / x = 1, x * 1 = x, monotone rounding)  *)
(* hold at every width, and so does the inexactness of (x / y) * y.        *)
(***************************************************************************)
EXTENDS Integers, Sequences, FiniteSets, TLC

\* ------------------------------------------------------------- bounds
Precision == 5
FracBits == 6
MaxTrades == 2
MaxLevels == 2
MaxPings == 2
MaxTime == 3
sell_timeout == 2

\* ---------------------------------------------------- float arithmetic
RECURSIVE Pow2(_)
Pow2(n) == IF n = 0 THEN 1 ELSE 2 * Pow2(n - 1)

RECURSIVE BitLen(_)
BitLen(q) == IF q = 0 THEN 0 ELSE 1 + BitLen(q \div 2)

Scale == Pow2(FracBits)

\* n / d (n >= 0, d > 0) rounded to Precision significant bits, ties to even.
RoundPos(n, d) ==
    LET q == n \div d
        s == IF BitLen(q) > Precision THEN BitLen(q) - Precision ELSE 0
        D == d * Pow2(s)
        m == n \div D
        r == n - m * D
        up == (2 * r > D) \/ (2 * r = D /\ m % 2 = 1)
    IN  (IF up THEN m + 1 ELSE m) * Pow2(s)

RoundQ(n, d) ==
    LET nn == IF d < 0 THEN 0 - n ELSE n
        dd == IF d < 0 THEN 0 - d ELSE d
    IN  IF nn < 0 THEN 0 - RoundPos(0 - nn, dd) ELSE RoundPos(nn, dd)

FAdd(a, b) == RoundQ(a + b, 1)
FSub(a, b) == RoundQ(a - b, 1)
FMul(a, b) == RoundQ(a * b, Scale)
FDiv(a, b) == RoundQ(a * Scale, b)

\* A literal of the program or of a caller: num / den as a float.
Lit(num, den) == RoundQ(num * Scale, den)

Min(a, b) == IF a < b THEN a ELSE b

\* f"{v:.kf}": the decimal rendering with k places, as an integer count of
\* 10^-k, correctly rounded from the exact binary value, ties to even.
RoundInt(n, d) ==
    LET m == n \div d
        r == n - m * d
    IN  IF (2 * r > d) \/ (2 * r = d /\ m % 2 = 1) THEN m + 1 ELSE m

Fmt2(v) == IF v < 0 THEN 0 - RoundInt((0 - v) * 100, Scale) ELSE RoundInt(v * 100, Scale)
Fmt3(v) == IF v < 0 THEN 0 - RoundInt((0 - v) * 1000, Scale) ELSE RoundInt(v * 1000, Scale)

\* ------------------------------------------------------------- ledger
DefaultBalance == 30

Slugs == {"x", "y"}

NoPositions == [s \in {} |-> 0]

RECURSIVE Pow10(_)
Pow10(n) == IF n = 0 THEN 1 ELSE 10 * Pow10(n - 1)

\* A float written in a YAML document: the decimal numeral m / 10^k.
decimal(v, k) ==
    [m |-> IF v < 0 THEN 0 - RoundInt((0 - v) * Pow10(k), Scale)
                    ELSE RoundInt(v * Pow10(k), Scale),
     k |-> k]

\* yaml.safe_load of a float scalar: float(text), the float nearest to the
\* numeral.
yaml_load_float(t) == RoundQ(t.m * Scale, Pow10(t.k))

RECURSIVE shortest(_, _)
shortest(v, k) ==
    IF k >= FracBits \/ yaml_load_float(decimal(v, k)) = v
    THEN decimal(v, k)
    ELSE shortest(v, k + 1)

yaml_dump_float_1dp(v) == decimal(v, 1)

\* yaml.dump of a float: repr(v), the shortest numeral that reads back as v.
yaml_dump_float(v) == shortest(v, 0)

yaml_dump_position(p) ==
    [shares |-> yaml_dump_float(p.shares),
     avg_cost |-> yaml_dump_float(p.avg_cost),
     total_invested |-> yaml_dump_float(p.total_invested)]

yaml_load_position(t) ==
    [shares |-> yaml_load_float(t.shares),
     avg_cost |-> yaml_load_float(t.avg_cost),
     total_invested |-> yaml_load_float(t.total_invested)]

\* balance.yaml: absent, or the text of a balance and a positions map.
AbsentFile == [kind |-> "absent", balance |-> decimal(0, 0), positions |-> NoPositions]

\* balance.yaml after open(BALANCE_FILE, 'w') and before any text of the
\* document has reached it: the file exists and has no content.
EmptyFile == [kind |-> "empty", balance |-> decimal(0, 0), positions |-> NoPositions]

\* The default is returned both when the file does not exist and when
\* yaml.safe_load returns None, which it does for a file with no content.
load_balance(f) ==
    IF f.kind = "data"
    THEN [balance |-> yaml_load_float(f.balance),
          positions |-> [s \in DOMAIN f.positions |-> yaml_load_position(f.positions[s])]]
    ELSE [balance |-> Lit(DefaultBalance, 1), positions |-> NoPositions]

save_balance(data) ==
    [kind |-> "data",
     balance |-> yaml_dump_float(data.balance),
     positions |-> [s \in DOMAIN data.positions |->
                       yaml_dump_position(data.positions[s])]]

ZeroPosition == [shares |-> 0, avg_cost |-> 0, total_invested |-> 0]

get_position(f, slug) ==
    LET data == load_balance(f)
    IN  IF slug \in DOMAIN data.positions
        THEN [found |-> TRUE, pos |-> data.positions[slug]]
        ELSE [found |-> FALSE, pos |-> ZeroPosition]

get_balance(f) == load_balance(f).balance

avg_cost_of(invested, shares) == IF shares > 0 THEN FDiv(invested, shares) ELSE 0

price_per_share(amount, shares) == IF shares > 0 THEN FDiv(amount, shares) ELSE 0

Sign(v) == IF v > 0 THEN 1 ELSE IF v < 0 THEN 0 - 1 ELSE 0

\* One block of trade_history.txt (the timestamp line is left out).
append_trade_history(trade_type, slug, shares, amount, price, balance_after, profit_loss) ==
    [kind |-> trade_type, slug |-> slug, shares |-> Fmt2(shares),
     price |-> Fmt3(price), amount |-> Fmt2(amount),
     profit_loss |-> IF trade_type = "SELL" THEN Fmt2(profit_loss) ELSE 0,
     pl_sign |-> IF trade_type = "SELL" THEN Sign(profit_loss) ELSE 0,
     balance_after |-> Fmt2(balance_after)]

\* Mutant: the check looks at the sign of the balance, not at the cost.
insufficient_balance_sign(balance, total_cost) == balance < 0

insufficient_balance(balance, total_cost) == balance < total_cost

\* Mutant: the cost basis is set to this purchase's cost, the earlier one lost.
buy_position_overwrite(position, shares, total_cost) ==
    LET new_shares == FAdd(position.shares, shares)
    IN  [shares |-> new_shares, total_invested |-> total_cost,
         avg_cost |-> avg_cost_of(total_cost, new_shares)]

buy_position(position, shares, total_cost) ==
    LET new_shares == FAdd(position.shares, shares)
        new_invested == FAdd(position.total_invested, total_cost)
    IN  [shares |-> new_shares, total_invested |-> new_invested,
         avg_cost |-> avg_cost_of(new_invested, new_shares)]

\* record_buy: [ok, data (what save_balance is given), rec (the history block)].
record_buy(f, slug, shares, total_cost) ==
    LET data == load_balance(f)
    IN  IF insufficient_balance(data.balance, total_cost)
        THEN [ok |-> FALSE, data |-> data, rec |-> <<>>]
        ELSE LET balance == FSub(data.balance, total_cost)
                 position == IF slug \in DOMAIN data.positions
                             THEN data.positions[slug] ELSE ZeroPosition
                 updated == buy_position(position, shares, total_cost)
                 positions == [s \in (DOMAIN data.positions) \cup {slug} |->
                                  IF s = slug THEN updated ELSE data.positions[s]]
             IN  [ok |-> TRUE,
                  data |-> [balance |-> balance, positions |-> positions],
                  rec |-> <<append_trade_history("BUY", slug, shares, total_cost,
                               price_per_share(total_cost, shares), balance, 0)>>]

\* Mutant: only an empty position is refused.
insufficient_shares_empty(held, shares) == held < 0

insufficient_shares_strict(held, shares) == held <= shares

insufficient_shares(held, shares) == held < shares

\* Mutant: the whole cost basis is attributed to every sale.
invested_in_sold_whole(shares, old_shares, old_invested) == old_invested

invested_in_sold(shares, old_shares, old_invested) ==
    IF old_shares > 0 THEN FMul(FDiv(shares, old_shares), old_invested) ELSE 0

sell_position(position, shares) ==
    LET sold == invested_in_sold(shares, position.shares, position.total_invested)
        new_shares == FSub(position.shares, shares)
        new_invested == FSub(position.total_invested, sold)
    IN  [shares |-> new_shares, total_invested |-> new_invested,
         avg_cost |-> avg_cost_of(new_invested, new_shares)]

\* record_sell from the position lookup on (the slug has an entry).
sell_from(data, slug, shares, total_proceeds) ==
    LET position == data.positions[slug]
    IN  IF insufficient_shares(position.shares, shares)
        THEN [ok |-> FALSE, data |-> data, rec |-> <<>>]
        ELSE LET sold == invested_in_sold(shares, position.shares,
                                          position.total_invested)
                 profit_loss == FSub(total_proceeds, sold)
                 balance == FAdd(data.balance, total_proceeds)
                 positions == [data.positions EXCEPT
                                  ![slug] = sell_position(position, shares)]
             IN  [ok |-> TRUE,
                  data |-> [balance |-> balance, positions |-> positions],
                  rec |-> <<append_trade_history("SELL", slug, shares,
                               total_proceeds,
                               price_per_share(total_proceeds, shares),
                               balance, profit_loss)>>]

\* Mutant: a missing entry is created with zeroed fields, as record_buy does.
record_sell_setdefault(f, slug, shares, total_proceeds) ==
    LET data == load_balance(f)
        positions == [s \in (DOMAIN data.positions) \cup {slug} |->
                         IF s \in DOMAIN data.positions
                         THEN data.positions[s] ELSE ZeroPosition]
    IN  sell_from([balance |-> data.balance, positions |-> positions],
                  slug, shares, total_proceeds)

record_sell(f, slug, shares, total_proceeds) ==
    LET data == load_balance(f)
    IN  IF slug \notin DOMAIN data.positions
        THEN [ok |-> FALSE, data |-> data, rec |-> <<>>]
        ELSE sell_from(data, slug, shares, total_proceeds)

\* ------------------------------------------------ buy fill simulation
\* A raw book level: price and size as parsed by float(), or unparsable.
usable_ask(level) == level.parses /\ level.price > 0 /\ level.size > 0

RECURSIVE filter_asks(_)
filter_asks(asks) ==
    IF asks = <<>> THEN <<>>
    ELSE IF usable_ask(Head(asks))
         THEN <<[price |-> Head(asks).price, size |-> Head(asks).size]>>
                  \o filter_asks(Tail(asks))
         ELSE filter_asks(Tail(asks))

\* list.sort(key=price) is stable: a level goes after the levels of its price.
RECURSIVE insert_by_price(_, _)
insert_by_price(level, sorted) ==
    IF sorted = <<>> THEN <<level>>
    ELSE IF level.price < Head(sorted).price
         THEN <<level>> \o sorted
         ELSE <<Head(sorted)>> \o insert_by_price(level, Tail(sorted))

RECURSIVE sort_asks(_)
sort_asks(levels) ==
    IF levels = <<>> THEN <<>>
    ELSE insert_by_price(levels[Len(levels)],
                         sort_asks(SubSeq(levels, 1, Len(levels) - 1)))

\* One level of the walk: the fill taken there.
fill_at(remaining_investment, ask) ==
    LET max_shares_at_price == FDiv(remaining_investment, ask.price)
        shares_to_buy == Min(ask.size, max_shares_at_price)
    IN  [price |-> ask.price, shares |-> shares_to_buy,
         cost |-> FMul(shares_to_buy, ask.price)]

RECURSIVE fill_orders(_, _)
fill_orders(sorted_asks, acc) ==
    IF sorted_asks = <<>> \/ acc.remaining <= 0 THEN acc
    ELSE LET fill == fill_at(acc.remaining, Head(sorted_asks))
         IN  fill_orders(Tail(sorted_asks),
                 IF fill.shares > 0
                 THEN [remaining |-> FSub(acc.remaining, fill.cost),
                       shares |-> FAdd(acc.shares, fill.shares),
                       spend |-> FAdd(acc.spend, fill.cost),
                       fills |-> Append(acc.fills, fill)]
                 ELSE acc)

NoTrade == [has |-> FALSE, shares |-> 0, spend |-> 0, fills |-> <<>>]

\* The trade plan of save_orderbook_snapshot(..., trade_type="BUY").
trade_plan(investment, asks) ==
    LET filtered_asks == sort_asks(filter_asks(asks))
    IN  IF filtered_asks /= <<>> /\ investment > 0
        THEN LET acc == fill_orders(sort_asks(filtered_asks),
                            [remaining |-> investment, shares |-> 0,
                             spend |-> 0, fills |-> <<>>])
             IN  IF acc.fills /= <<>>
                 THEN [has |-> TRUE, shares |-> acc.shares,
                       spend |-> acc.spend, fills |-> acc.fills]
                 ELSE NoTrade
        ELSE NoTrade

\* ------------------------------------------- sell fill simulation
\* sorted(bids, key=price, reverse=True) is stable: a level goes after the
\* levels of its price or higher.
RECURSIVE insert_by_price_desc(_, _)
insert_by_price_desc(level, sorted) ==
    IF sorted = <<>> THEN <<level>>
    ELSE IF level.price > Head(sorted).price
         THEN <<level>> \o sorted
         ELSE <<Head(sorted)>> \o insert_by_price_desc(level, Tail(sorted))

RECURSIVE sort_bids(_)
sort_bids(levels) ==
    IF levels = <<>> THEN <<>>
    ELSE insert_by_price_desc(levels[Len(levels)],
                              sort_bids(SubSeq(levels, 1, Len(levels) - 1)))

shares_at_price(available_size, shares_to_sell) == Min(available_size, shares_to_sell)

RECURSIVE sell_walk(_, _)
sell_walk(sorted_bids, acc) ==
    IF sorted_bids = <<>> \/ acc.shares_to_sell <= 0 THEN acc
    ELSE LET bid == Head(sorted_bids)
             taken == shares_at_price(bid.size, acc.shares_to_sell)
             proceeds == FMul(taken, bid.price)
         IN  sell_walk(Tail(sorted_bids),
                 [shares_to_sell |-> FSub(acc.shares_to_sell, taken),
                  total_proceeds |-> FAdd(acc.total_proceeds, proceeds),
                  sell_fills |-> Append(acc.sell_fills,
                      [price |-> bid.price, shares |-> taken, proceeds |-> proceeds])])

\* float() of a level that does not parse raises ValueError.
all_parse(levels) == \A i \in 1..Len(levels) : levels[i].parses

\* main.py's walk over the bids for a position of `shares` shares.
sell_plan(shares, bids) ==
    IF ~all_parse(bids)
    THEN [raised |-> TRUE, shares_to_sell |-> shares, total_proceeds |-> 0,
          sell_fills |-> <<>>]
    ELSE LET acc == sell_walk(sort_bids(bids),
                        [shares_to_sell |-> shares, total_proceeds |-> 0,
                         sell_fills |-> <<>>])
         IN  [raised |-> FALSE, shares_to_sell |-> acc.shares_to_sell,
              total_proceeds |-> acc.total_proceeds, sell_fills |-> acc.sell_fills]

\* -------------------------------------------------------------- state
VARIABLES
    file,       \* balance.yaml
    history,    \* trade_history.txt, a sequence of blocks
    commits,    \* completed save_balance calls of a buy or a sell
    running,    \* the process is alive
    last,       \* the most recent ledger call: arguments, result, file before it
    sim,        \* one call of a fill simulation: its inputs and its result
    ping_data,  \* ping_server.ping_data: the count of pings received
    loop,       \* main's position in its loop, current_count, last_seen_count
    sell_timers, \* main's sell_timers: slug -> the time the timer was started
    now,        \* the wall clock, in ticks
    config,     \* config.yaml as main reads it: investment
    ev,         \* what main's most recent step did, for the properties
    callers,    \* concurrent callers of record_buy / record_sell: what each
                \* has loaded and not yet saved, and the file they started from
    handlers    \* concurrent /ping handlers: the count each has read and not
                \* yet written back, and the number of pings handled

ledger == <<file, history, commits, running, last>>
engine == <<ping_data, loop, sell_timers, now, config, ev>>
threads == <<callers, handlers>>
vars == <<file, history, commits, running, last, sim,
          ping_data, loop, sell_timers, now, config, ev, callers, handlers>>

\* What a caller passes: share counts and amounts of money.
ShareVals == {0, Lit(1, 1), Lit(3, 1)}
CostVals == {Lit(5, 2), Lit(DefaultBalance, 1), Lit(40, 1)}
ProceedsVals == {0 - Lit(1, 1), Lit(5, 2), Lit(DefaultBalance, 1)}

NoCall == [op |-> "none", slug |-> "x", shares |-> 0, amount |-> 0,
           ok |-> FALSE, pre |-> AbsentFile, stopped |-> FALSE]

NoSim == [pc |-> "idle", investment |-> 0, asks |-> <<>>, info |-> NoTrade]

NoEvent == [kind |-> "none", slug |-> "x", at |-> 0, armed |-> FALSE, armed_at |-> 0,
            held |-> FALSE, shares |-> 0, proceeds |-> 0]

Callers == {1, 2}
Handlers == {1, 2, 3}

NoCallers ==
    [start |-> AbsentFile,
     call |-> [c \in Callers |-> [pc |-> "idle", op |-> "none", slug |-> "x",
                                   shares |-> 0, amount |-> 0, seen |-> AbsentFile,
                                   ok |-> FALSE]]]

NoHandlers == [handled |-> 0, h |-> [c \in Handlers |-> [pc |-> "idle", count |-> 0]]]

\* No second caller of the ledger and no request in flight.
ThreadsIdle ==
    /\ callers = NoCallers
    /\ handlers = NoHandlers

\* main before its first loop iteration, no ping received.
EngineIdle ==
    /\ ping_data = [count |-> 0]
    /\ loop = [pc |-> "poll", idx |-> 1, current_count |-> 0, last_seen_count |-> 0]
    /\ sell_timers = <<>>
    /\ now = 0
    /\ config = [investment |-> 0]
    /\ ev = NoEvent
    /\ ThreadsIdle

Init ==
    /\ file = AbsentFile
    /\ history = <<>>
    /\ commits = 0
    /\ running = TRUE
    /\ last = NoCall
    /\ sim = NoSim
    /\ EngineIdle

Call(op, slug, shares, amount, r, stopped) ==
    [op |-> op, slug |-> slug, shares |-> shares, amount |-> amount,
     ok |-> r.ok, pre |-> file, stopped |-> stopped]

\* A ledger call that runs to its return.
Apply(op, slug, shares, amount, r) ==
    /\ running
    /\ r.ok => commits < MaxTrades
    /\ file' = IF r.ok THEN save_balance(r.data) ELSE file
    /\ history' = history \o r.rec
    /\ commits' = IF r.ok THEN commits + 1 ELSE commits
    /\ last' = Call(op, slug, shares, amount, r, FALSE)
    /\ UNCHANGED <<running, sim>>
    /\ UNCHANGED engine
    /\ UNCHANGED threads

\* A ledger call during which the process is stopped after save_balance has
\* returned and before append_trade_history has written.
ApplyStopped(op, slug, shares, amount, r) ==
    /\ running
    /\ r.ok
    /\ commits < MaxTrades
    /\ file' = save_balance(r.data)
    /\ commits' = commits + 1
    /\ running' = FALSE
    /\ last' = Call(op, slug, shares, amount, r, TRUE)
    /\ UNCHANGED <<history, sim>>
    /\ UNCHANGED engine
    /\ UNCHANGED threads

RecordBuy ==
    \E slug \in Slugs, shares \in ShareVals, total_cost \in CostVals :
        Apply("buy", slug, shares, total_cost, record_buy(file, slug, shares, total_cost))

RecordSell ==
    \E slug \in Slugs, shares \in ShareVals, total_proceeds \in ProceedsVals :
        Apply("sell", slug, shares, total_proceeds,
              record_sell(file, slug, shares, total_proceeds))

RecordBuyStopped ==
    \E slug \in Slugs, shares \in ShareVals, total_cost \in CostVals :
        ApplyStopped("buy", slug, shares, total_cost,
                     record_buy(file, slug, shares, total_cost))

RecordSellStopped ==
    \E slug \in Slugs, shares \in ShareVals, total_proceeds \in ProceedsVals :
        ApplyStopped("sell", slug, shares, total_proceeds,
                     record_sell(file, slug, shares, total_proceeds))

\* The process is started again; the files are as it left them.
Restart ==
    /\ ~running
    /\ running' = TRUE
    /\ UNCHANGED <<file, history, commits, last, sim>>
    /\ UNCHANGED engine
    /\ UNCHANGED threads

Next ==
    \/ RecordBuy
    \/ RecordSell

Spec == Init /\ [][Next]_vars

NextStop ==
    \/ RecordBuy
    \/ RecordSell
    \/ RecordBuyStopped
    \/ RecordSellStopped
    \/ Restart

SpecStop == Init /\ [][NextStop]_vars

\* A ledger call during which the process is stopped inside save_balance,
\* after open(BALANCE_FILE, 'w') has truncated the file and before the
\* document, which yaml.dump writes into the file object's buffer, has been
\* flushed to it.
ApplyStoppedInSave(op, slug, shares, amount, r) ==
    /\ running
    /\ r.ok
    /\ commits < MaxTrades
    /\ file' = EmptyFile
    /\ commits' = commits + 1
    /\ running' = FALSE
    /\ last' = Call(op, slug, shares, amount, r, TRUE)
    /\ UNCHANGED <<history, sim>>
    /\ UNCHANGED engine
    /\ UNCHANGED threads

RecordBuyStoppedInSave ==
    \E slug \in Slugs, shares \in ShareVals, total_cost \in CostVals :
        ApplyStoppedInSave("buy", slug, shares, total_cost,
                           record_buy(file, slug, shares, total_cost))

RecordSellStoppedInSave ==
    \E slug \in Slugs, shares \in ShareVals, total_proceeds \in ProceedsVals :
        ApplyStoppedInSave("sell", slug, shares, total_proceeds,
                           record_sell(file, slug, shares, total_proceeds))

NextCrash ==
    \/ RecordBuy
    \/ RecordSell
    \/ RecordBuyStopped
    \/ RecordSellStopped
    \/ RecordBuyStoppedInSave
    \/ RecordSellStoppedInSave
    \/ Restart

SpecCrash == Init /\ [][NextCrash]_vars

\* ------------------------------------- the buy simulation on its own
BudgetVals == {0, Lit(1, 1), Lit(25, 8), Lit(12, 1)}

Level(price, size, parses) == [price |-> price, size |-> size, parses |-> parses]

AskLevels ==
    {Level(p, z, TRUE) : p \in {Lit(1, 2), Lit(3, 4)}, z \in {Lit(1, 1), Lit(10, 1)}}
        \cup {Level(Lit(23, 32), Lit(10, 1), TRUE)}
        \cup {Level(0, Lit(10, 1), TRUE), Level(Lit(1, 2), 0, TRUE),
              Level(0, 0, FALSE)}

RECURSIVE SeqsUpTo(_, _)
SeqsUpTo(S, n) ==
    IF n = 0 THEN {<<>>}
    ELSE LET shorter == SeqsUpTo(S, n - 1)
         IN  shorter \cup {Append(q, x) : q \in {r \in shorter : Len(r) = n - 1}, x \in S}

SimInit ==
    /\ file = AbsentFile
    /\ history = <<>>
    /\ commits = 0
    /\ running = TRUE
    /\ last = NoCall
    /\ \E investment \in BudgetVals, asks \in SeqsUpTo(AskLevels, MaxLevels) :
           sim = [pc |-> "ready", investment |-> investment, asks |-> asks,
                  info |-> NoTrade]
    /\ EngineIdle

SimulateBuy ==
    /\ sim.pc = "ready"
    /\ sim' = [sim EXCEPT !.pc = "done",
                          !.info = trade_plan(sim.investment, sim.asks)]
    /\ UNCHANGED ledger
    /\ UNCHANGED engine
    /\ UNCHANGED threads

SimNext == SimulateBuy

SpecBuySim == SimInit /\ [][SimNext]_vars

\* ------------------------------------ the sell simulation on its own
SellShareVals == {Lit(1, 1), Lit(10, 1), Lit(19, 1)}

BidLevels ==
    {Level(p, z, TRUE) : p \in {Lit(1, 2), Lit(3, 4)}, z \in {Lit(3, 2), Lit(20, 1)}}
        \cup {Level(Lit(1, 2), 0 - Lit(1, 1), TRUE), Level(0, 0, FALSE)}

NoPlan == [raised |-> FALSE, shares_to_sell |-> 0, total_proceeds |-> 0,
           sell_fills |-> <<>>]

SellSimInit ==
    /\ file = AbsentFile
    /\ history = <<>>
    /\ commits = 0
    /\ running = TRUE
    /\ last = NoCall
    /\ \E shares \in SellShareVals, bids \in SeqsUpTo(BidLevels, MaxLevels) :
           sim = [pc |-> "ready", shares |-> shares, bids |-> bids, plan |-> NoPlan]
    /\ EngineIdle

SimulateSell ==
    /\ sim.pc = "ready"
    /\ sim' = [sim EXCEPT !.pc = "done", !.plan = sell_plan(sim.shares, sim.bids)]
    /\ UNCHANGED ledger
    /\ UNCHANGED engine
    /\ UNCHANGED threads

SellSimNext == SimulateSell

SpecSellSim == SellSimInit /\ [][SellSimNext]_vars

\* --------------------------------------------------- main's loop
\* config.yaml's tokens, in their order.
Tokens == <<"x", "y">>

InvestmentVals == {Lit(26, 1)}

\* fetch_orderbook returns None when the request fails.
NoBook == [ok |-> FALSE, asks |-> <<>>, bids |-> <<>>]
Book(asks, bids) == [ok |-> TRUE, asks |-> asks, bids |-> bids]

Books ==
    {Book(<<Level(Lit(1, 2), Lit(10, 1), TRUE)>>, <<Level(Lit(3, 4), Lit(20, 1), TRUE)>>),
     Book(<<>>, <<Level(Lit(1, 2), Lit(1, 1), TRUE)>>),
     Book(<<Level(Lit(1, 2), Lit(10, 1), TRUE)>>, <<Level(0, 0, FALSE)>>),
     Book(<<Level(Lit(3, 4), Lit(50, 1), TRUE)>>, <<>>)}

fetch_orderbook == Books \cup {NoBook}

\* balance.yaml as an earlier run of the program left it.
StartFiles ==
    {AbsentFile,
     save_balance(record_buy(AbsentFile, "x", Lit(10, 1), Lit(5, 1)).data)}

holds_never(position) == FALSE

holds_entry(position) == position.found

holds(position) == position.found /\ position.pos.shares > 0

expired_always(time_elapsed) == TRUE

expired(time_elapsed) == time_elapsed >= sell_timeout

set_timer(timers, slug, t) ==
    [s \in (DOMAIN timers) \cup {slug} |-> IF s = slug THEN t ELSE timers[s]]

start_timer_skip(timers, slug, t) == timers

start_timer(timers, slug, t) == set_timer(timers, slug, t)

reset_timer(timers, slug, t) == set_timer(timers, slug, t)

position_detected_arms(timers, slug, t) == set_timer(timers, slug, t)

position_detected(timers, slug, t) == timers

del_timer_all(timers, slug) == <<>>

\* del sell_timers[slug]
del_timer(timers, slug) == [s \in (DOMAIN timers) \ {slug} |-> timers[s]]

sold_timer_kept(timers, slug) == timers

sold_timer(timers, slug) == del_timer(timers, slug)

sell_failed_timer(timers, slug) == del_timer(timers, slug)

no_book_timer_kept(timers, slug) == timers

no_book_timer(timers, slug) == del_timer(timers, slug)

NoResult == [ok |-> FALSE, data |-> load_balance(AbsentFile), rec |-> <<>>]

\* What one step of main did: the ledger call it made, if any, and the
\* timers it leaves.
Quiet(kind, timers) ==
    [kind |-> kind, timers |-> timers, op |-> "none", shares |-> 0, amount |-> 0,
     r |-> NoResult]

Traded(kind, timers, op, shares, amount, r) ==
    [kind |-> kind, timers |-> timers, op |-> op, shares |-> shares,
     amount |-> amount, r |-> r]

\* main after record_buy has returned.
after_buy(timers, slug, trade_info, r, t) ==
    IF r.ok
    THEN Traded("bought", start_timer(timers, slug, t), "buy",
                trade_info.shares, trade_info.spend, r)
    ELSE Traded("insufficient", timers, "buy", trade_info.shares, trade_info.spend, r)

on_trade_info_arms(f, timers, slug, trade_info, t) ==
    IF trade_info.has
    THEN after_buy(timers, slug, trade_info,
                   record_buy(f, slug, trade_info.shares, trade_info.spend), t)
    ELSE Quiet("no_liquidity", start_timer(timers, slug, t))

on_trade_info_records(f, timers, slug, trade_info, t) ==
    after_buy(timers, slug, trade_info,
              record_buy(f, slug, trade_info.shares, trade_info.spend), t)

\* main with the trade plan of the snapshot in hand.
on_trade_info(f, timers, slug, trade_info, t) ==
    IF trade_info.has
    THEN after_buy(timers, slug, trade_info,
                   record_buy(f, slug, trade_info.shares, trade_info.spend), t)
    ELSE Quiet("no_liquidity", timers)

\* The body of "for t in tokens" after a new ping, for one token.
on_signal(f, timers, slug, orderbook_data, t) ==
    IF ~orderbook_data.ok THEN Quiet("signal_no_book", timers)
    ELSE IF holds(get_position(f, slug))
    THEN IF slug \in DOMAIN timers
         THEN Quiet("reset", reset_timer(timers, slug, t))
         ELSE Quiet("detected", position_detected(timers, slug, t))
    ELSE IF ~all_parse(orderbook_data.bids) THEN Quiet("raised", timers)
    ELSE on_trade_info(f, timers, slug,
             trade_plan(Min(config.investment, get_balance(f)), orderbook_data.asks), t)

\* main after record_sell has returned.
after_sell(timers, slug, shares, total_proceeds, r) ==
    IF r.ok
    THEN Traded("sold", sold_timer(timers, slug), "sell", shares, total_proceeds, r)
    ELSE Traded("sell_failed", sell_failed_timer(timers, slug), "sell",
                shares, total_proceeds, r)

on_sell_plan_filled(f, timers, slug, shares, plan) ==
    IF plan.raised THEN Quiet("raised", timers)
    ELSE after_sell(timers, slug, FSub(shares, plan.shares_to_sell),
                    plan.total_proceeds,
                    record_sell(f, slug, FSub(shares, plan.shares_to_sell),
                                plan.total_proceeds))

\* main with the walk over the bids done.
on_sell_plan(f, timers, slug, shares, plan) ==
    IF plan.raised THEN Quiet("raised", timers)
    ELSE after_sell(timers, slug, shares, plan.total_proceeds,
                    record_sell(f, slug, shares, plan.total_proceeds))

\* The body of the timer check for one token.
on_timer(f, timers, slug, orderbook_data, t) ==
    IF ~(slug \in DOMAIN timers) THEN Quiet("no_timer", timers)
    ELSE IF ~expired(t - timers[slug]) THEN Quiet("waiting", timers)
    ELSE IF ~holds(get_position(f, slug)) THEN Quiet("expired_flat", timers)
    ELSE IF ~orderbook_data.ok THEN Quiet("sell_no_book", no_book_timer(timers, slug))
    ELSE on_sell_plan(f, timers, slug, get_position(f, slug).pos.shares,
             sell_plan(get_position(f, slug).pos.shares, orderbook_data.bids))

Event(out, slug) ==
    [kind |-> out.kind, slug |-> slug, at |-> now,
     armed |-> slug \in DOMAIN sell_timers,
     armed_at |-> IF slug \in DOMAIN sell_timers THEN sell_timers[slug] ELSE 0,
     held |-> get_position(file, slug).pos.shares > 0,
     shares |-> get_position(file, slug).pos.shares,
     proceeds |-> out.amount]

\* The effect of one step of main on the files, the timers and the process:
\* an exception other than KeyboardInterrupt ends the process.
file_after(f, out) == IF out.r.ok THEN save_balance(out.r.data) ELSE f

Do(out, slug) ==
    /\ file' = file_after(file, out)
    /\ history' = history \o out.r.rec
    /\ commits' = IF out.r.ok THEN commits + 1 ELSE commits
    /\ last' = IF out.op = "none" THEN last
               ELSE Call(out.op, slug, out.shares, out.amount, out.r, FALSE)
    /\ sell_timers' = out.timers
    /\ running' = (out.kind /= "raised")
    /\ ev' = IF out.kind \in {"no_timer", "waiting"} THEN ev ELSE Event(out, slug)

EngineInit ==
    /\ file \in StartFiles
    /\ history = <<>>
    /\ commits = 0
    /\ running = TRUE
    /\ last = NoCall
    /\ sim = NoSim
    /\ ping_data = [count |-> 0]
    /\ loop = [pc |-> "poll", idx |-> 1, current_count |-> 0, last_seen_count |-> 0]
    /\ sell_timers = <<>>
    /\ now = 0
    /\ config \in {[investment |-> v] : v \in InvestmentVals}
    /\ ev = NoEvent
    /\ ThreadsIdle

\* ping_server's /ping handler.
Ping ==
    /\ running
    /\ ping_data.count < MaxPings
    /\ ping_data' = [count |-> ping_data.count + 1]
    /\ UNCHANGED <<file, history, commits, running, last, sim, loop, sell_timers,
                   now, config, ev>>
    /\ UNCHANGED threads

\* Time passes.
Tick ==
    /\ now < MaxTime
    /\ now' = now + 1
    /\ UNCHANGED <<file, history, commits, running, last, sim, ping_data, loop,
                   sell_timers, config, ev>>
    /\ UNCHANGED threads

\* main reads the ping count at the top of its loop.
Poll ==
    /\ running
    /\ loop.pc = "poll"
    /\ loop' = [loop EXCEPT
                  !.pc = IF ping_data.count > loop.last_seen_count
                         THEN "signal" ELSE "timers",
                  !.idx = 1,
                  !.current_count = ping_data.count]
    /\ UNCHANGED <<file, history, commits, running, last, sim, ping_data,
                   sell_timers, now, config, ev>>
    /\ UNCHANGED threads

last_seen_live(lp, pd) == pd.count

last_seen_next(lp, pd) == lp.last_seen_count + 1

\* last_seen_count = current_count after the for loop of a signal round:
\* the count main read at the top of the iteration, not the count the ping
\* server holds by then.
last_seen_after_round(lp, pd) == lp.current_count

SignalToken ==
    /\ running
    /\ loop.pc = "signal"
    /\ \E orderbook_data \in fetch_orderbook :
           \E out \in {on_signal(file, sell_timers, Tokens[loop.idx], orderbook_data, now)} :
               /\ Do(out, Tokens[loop.idx])
               /\ loop' = IF out.kind = "raised" THEN loop
                          ELSE IF loop.idx < Len(Tokens)
                          THEN [loop EXCEPT !.idx = loop.idx + 1]
                          ELSE [loop EXCEPT !.pc = "timers", !.idx = 1,
                                            !.last_seen_count =
                                                last_seen_after_round(loop, ping_data)]
    /\ UNCHANGED <<sim, ping_data, now, config>>
    /\ UNCHANGED threads

\* The timer check for one token; after the last token main sleeps and
\* starts its loop again.
TimerCheck(fetched) ==
    /\ running
    /\ loop.pc = "timers"
    /\ \E orderbook_data \in fetched :
           \E out \in {on_timer(file, sell_timers, Tokens[loop.idx], orderbook_data, now)} :
               /\ Do(out, Tokens[loop.idx])
               /\ loop' = IF out.kind = "raised" THEN loop
                          ELSE IF loop.idx < Len(Tokens)
                          THEN [loop EXCEPT !.idx = loop.idx + 1]
                          ELSE [loop EXCEPT !.pc = "poll", !.idx = 1]
    /\ UNCHANGED <<sim, ping_data, now, config>>
    /\ UNCHANGED threads

TimerToken == TimerCheck(fetch_orderbook)

\* The timer check of a token when the request for its book succeeds.
TimerTokenFetched == TimerCheck(Books)

EngineNext ==
    \/ Ping
    \/ Tick
    \/ Poll
    \/ SignalToken
    \/ TimerToken

SpecEngine == EngineInit /\ [][EngineNext]_vars

\* main's loop when every fetch of the timer check returns a book.  The
\* loop has no blocking call but sleep(0.2), the ping server runs on its
\* own thread and the clock does not stop: each of main's steps that can
\* be taken is taken, and time passes, up to MaxTime.
LiveNext ==
    \/ Ping
    \/ Tick
    \/ Poll
    \/ SignalToken
    \/ TimerTokenFetched

\* A step of a for loop can be taken exactly when main is running inside
\* that loop; weak fairness of the two steps is written out with these
\* conditions: the step is infinitely often not enabled or infinitely
\* often taken.
SignalEnabled == running /\ loop.pc = "signal"
TimerEnabled == running /\ loop.pc = "timers"

SpecLive ==
    /\ EngineInit
    /\ [][LiveNext]_vars
    /\ WF_vars(Tick)
    /\ WF_vars(Poll)
    /\ ([]<>(~SignalEnabled) \/ []<><<SignalToken>>_vars)
    /\ ([]<>(~TimerEnabled) \/ []<><<TimerTokenFetched>>_vars)

\* ------------------------------------- concurrent ledger callers
\* record_buy and record_sell take no lock: a call reads balance.yaml
\* (load_balance), computes on what it read, and writes the whole file
\* (save_balance).  Between its read and its write another caller runs.
RaceCalls ==
    {[op |-> "buy", slug |-> "x", shares |-> Lit(1, 1), amount |-> Lit(20, 1)],
     [op |-> "buy", slug |-> "y", shares |-> Lit(1, 1), amount |-> Lit(20, 1)],
     [op |-> "buy", slug |-> "y", shares |-> Lit(1, 1), amount |-> Lit(5, 1)],
     [op |-> "sell", slug |-> "x", shares |-> Lit(10, 1), amount |-> Lit(5, 1)]}

\* The call on the file contents it read.
record_on(seen, call) ==
    IF call.op = "buy"
    THEN record_buy(seen, call.slug, call.shares, call.amount)
    ELSE record_sell(seen, call.slug, call.shares, call.amount)

ConcurrentInit ==
    /\ file \in StartFiles
    /\ history = <<>>
    /\ commits = 0
    /\ running = TRUE
    /\ last = NoCall
    /\ sim = NoSim
    /\ ping_data = [count |-> 0]
    /\ loop = [pc |-> "poll", idx |-> 1, current_count |-> 0, last_seen_count |-> 0]
    /\ sell_timers = <<>>
    /\ now = 0
    /\ config = [investment |-> 0]
    /\ ev = NoEvent
    /\ callers = [NoCallers EXCEPT !.start = file]
    /\ handlers = NoHandlers

\* A caller enters record_buy or record_sell and runs load_balance.
CallLoad(c) ==
    /\ callers.call[c].pc = "idle"
    /\ \E call \in RaceCalls :
           callers' = [callers EXCEPT !.call[c] =
                          [pc |-> "loaded", op |-> call.op, slug |-> call.slug,
                           shares |-> call.shares, amount |-> call.amount,
                           seen |-> file, ok |-> FALSE]]
    /\ UNCHANGED <<file, history, commits, running, last, sim, handlers>>
    /\ UNCHANGED engine

\* The caller checks, updates what it loaded, runs save_balance and
\* append_trade_history, and returns.
CallSave(c) ==
    /\ callers.call[c].pc = "loaded"
    /\ LET call == callers.call[c]
           r == record_on(call.seen, call)
       IN  /\ file' = IF r.ok THEN save_balance(r.data) ELSE file
           /\ history' = history \o r.rec
           /\ commits' = IF r.ok THEN commits + 1 ELSE commits
           /\ last' = [op |-> call.op, slug |-> call.slug, shares |-> call.shares,
                       amount |-> call.amount, ok |-> r.ok, pre |-> call.seen,
                       stopped |-> FALSE]
           /\ callers' = [callers EXCEPT !.call[c].pc = "done", !.call[c].ok = r.ok]
    /\ UNCHANGED <<running, sim, handlers>>
    /\ UNCHANGED engine

ConcurrentNext ==
    \E c \in Callers : CallLoad(c) \/ CallSave(c)

SpecConcurrent == ConcurrentInit /\ [][ConcurrentNext]_vars

\* ------------------------------------------- concurrent /ping handlers
\* Flask serves each request on its own thread.  The handler's
\* ping_data['count'] += 1 is a read of the entry, an addition and a store,
\* with no lock; main reads the entry from its own thread.
PingInit ==
    /\ file = AbsentFile
    /\ history = <<>>
    /\ commits = 0
    /\ running = TRUE
    /\ last = NoCall
    /\ sim = NoSim
    /\ EngineIdle

\* A request arrives and its handler reads ping_data['count'].
PingRead(h) ==
    /\ handlers.h[h].pc = "idle"
    /\ handlers.handled + Cardinality({g \in Handlers : handlers.h[g].pc = "read"})
           <= MaxPings + 1
    /\ handlers' = [handlers EXCEPT !.h[h] = [pc |-> "read", count |-> ping_data.count]]
    /\ UNCHANGED <<ping_data, loop, sell_timers, now, config, ev, callers, sim>>
    /\ UNCHANGED ledger

\* The handler stores what it read plus one and answers the request.
PingWrite(h) ==
    /\ handlers.h[h].pc = "read"
    /\ ping_data' = [ping_data EXCEPT !.count = handlers.h[h].count + 1]
    /\ handlers' = [handled |-> handlers.handled + 1,
                    h |-> [handlers.h EXCEPT ![h] = [pc |-> "idle", count |-> 0]]]
    /\ UNCHANGED <<loop, sell_timers, now, config, ev, callers, sim>>
    /\ UNCHANGED ledger

\* One iteration of main's loop with no token traded: it reads the count
\* and, if it is above the last one it saw, remembers it.
ReadCount ==
    /\ loop' = [loop EXCEPT !.current_count = ping_data.count,
                            !.last_seen_count =
                                IF ping_data.count > loop.last_seen_count
                                THEN ping_data.count ELSE loop.last_seen_count]
    /\ loop' /= loop
    /\ UNCHANGED <<ping_data, sell_timers, now, config, ev, sim>>
    /\ UNCHANGED threads
    /\ UNCHANGED ledger

PingNext ==
    \/ \E h \in Handlers : PingRead(h) \/ PingWrite(h)
    \/ ReadCount

SpecPing == PingInit /\ [][PingNext]_vars

\* ------------------------------------------ ping_server's payload list
\* The requests served.
MaxRequests == 53

\* The payloads the handler keeps.
KeepPayloads == 50

\* The threads that serve requests at the same time.
PayloadHandlers == {1, 2}

\* payloads[-50:]
last_payloads(payloads) ==
    IF Len(payloads) > KeepPayloads
    THEN SubSeq(payloads, Len(payloads) - KeepPayloads + 1, Len(payloads))
    ELSE payloads

\* A handler between two requests.
IdleHandler == [pc |-> "idle", count |-> 0, slice |-> <<>>]

\* ping_server as the module is loaded: count 0, no payloads.  A payload is
\* written as the number of its append, counted from 1.
PayloadInit ==
    /\ file = AbsentFile
    /\ history = <<>>
    /\ commits = 0
    /\ running = TRUE
    /\ last = NoCall
    /\ sim = NoSim
    /\ ping_data = [count |-> 0, payloads |-> <<>>]
    /\ loop = [pc |-> "poll", idx |-> 1, current_count |-> 0, last_seen_count |-> 0]
    /\ sell_timers = <<>>
    /\ now = 0
    /\ config = [investment |-> 0]
    /\ ev = NoEvent
    /\ callers = NoCallers
    /\ handlers = [handled |-> 0, appended |-> 0,
                   h |-> [c \in Handlers |-> IdleHandler]]

PayloadStep(h, pc, count, slice) ==
    [handlers EXCEPT !.h[h] = [pc |-> pc, count |-> count, slice |-> slice]]

\* A request arrives and its handler reads ping_data['count'].
PayloadRead(h) ==
    /\ handlers.h[h].pc = "idle"
    /\ handlers.handled + Cardinality({g \in Handlers : handlers.h[g].pc /= "idle"})
           < MaxRequests
    /\ handlers' = PayloadStep(h, "read", ping_data.count, <<>>)
    /\ UNCHANGED <<ping_data, loop, sell_timers, now, config, ev, callers, sim>>
    /\ UNCHANGED ledger

\* The handler stores the count it read plus one.
PayloadCount(h) ==
    /\ handlers.h[h].pc = "read"
    /\ ping_data' = [ping_data EXCEPT !.count = handlers.h[h].count + 1]
    /\ handlers' = PayloadStep(h, "counted", 0, <<>>)
    /\ UNCHANGED <<loop, sell_timers, now, config, ev, callers, sim>>
    /\ UNCHANGED ledger

\* ping_data['payloads'].append(...): one call on the list.
PayloadAppend(h) ==
    /\ handlers.h[h].pc = "counted"
    /\ ping_data' = [ping_data EXCEPT
                         !.payloads = Append(ping_data.payloads, handlers.appended + 1)]
    /\ handlers' = [PayloadStep(h, "appended", 0, <<>>) EXCEPT
                        !.appended = handlers.appended + 1]
    /\ UNCHANGED <<loop, sell_timers, now, config, ev, callers, sim>>
    /\ UNCHANGED ledger

\* if len(ping_data['payloads']) > 50: the handler takes the slice
\* payloads[-50:], a new list; otherwise it answers the request.
PayloadSlice(h) ==
    /\ handlers.h[h].pc = "appended"
    /\ handlers' = IF Len(ping_data.payloads) > KeepPayloads
                   THEN PayloadStep(h, "slice", 0, last_payloads(ping_data.payloads))
                   ELSE [PayloadStep(h, "idle", 0, <<>>) EXCEPT
                             !.handled = handlers.handled + 1]
    /\ UNCHANGED <<ping_data, loop, sell_timers, now, config, ev, callers, sim>>
    /\ UNCHANGED ledger

\* ping_data['payloads'] = <the slice>, and the handler answers the request.
PayloadStore(h) ==
    /\ handlers.h[h].pc = "slice"
    /\ ping_data' = [ping_data EXCEPT !.payloads = handlers.h[h].slice]
    /\ handlers' = [PayloadStep(h, "idle", 0, <<>>) EXCEPT
                        !.handled = handlers.handled + 1]
    /\ UNCHANGED <<loop, sell_timers, now, config, ev, callers, sim>>
    /\ UNCHANGED ledger

PayloadNext ==
    \E h \in PayloadHandlers :
        \/ PayloadRead(h)
        \/ PayloadCount(h)
        \/ PayloadAppend(h)
        \/ PayloadSlice(h)
        \/ PayloadStore(h)

SpecPayloads == PayloadInit /\ [][PayloadNext]_vars

\* ------------------------------------------------------------- claims
Abs(v) == IF v < 0 THEN 0 - v ELSE v

\* One unit in the last place of v.
Ulp(v) == IF BitLen(Abs(v)) > Precision THEN Pow2(BitLen(Abs(v)) - Precision) ELSE 1

PreData == load_balance(last.pre)
PostData == load_balance(file)
PrePos == get_position(last.pre, last.slug)
PostPos == get_position(file, last.slug)

OthersUntouched ==
    \A s \in DOMAIN PreData.positions :
        s /= last.slug =>
            s \in DOMAIN PostData.positions /\ PostData.positions[s] = PreData.positions[s]

\* C1: a record_buy whose total_cost is greater than the balance returns
\* False and leaves balance.yaml (balance and positions) as it was; no
\* position entry is created.
C1_NoOverdraft ==
    (last.op = "buy" /\ last.amount > PreData.balance)
        => (~last.ok /\ file = last.pre)

C1_Witness ==
    /\ last.op = "buy" /\ last.amount > PreData.balance /\ ~last.ok
    /\ last.pre.kind = "data"
    /\ ~PrePos.found

\* C2: a record_sell of more shares than the position holds returns False
\* and leaves balance.yaml as it was.
C2_NoOverdraw ==
    (last.op = "sell" /\ PrePos.found /\ last.shares > PrePos.pos.shares)
        => (~last.ok /\ file = last.pre)

C2_Witness ==
    /\ last.op = "sell" /\ PrePos.found /\ PrePos.pos.shares > 0
    /\ last.shares > PrePos.pos.shares /\ ~last.ok

\* C3: a record_sell for a slug with no entry in positions returns False,
\* leaves balance.yaml as it was and creates no entry for the slug.
C3_NoPosition ==
    (last.op = "sell" /\ ~PrePos.found)
        => (~last.ok /\ file = last.pre /\ ~PostPos.found)

C3_Witness ==
    /\ last.op = "sell" /\ ~PrePos.found /\ ~last.ok
    /\ last.shares = 0
    /\ last.pre.kind = "data"

\* C4: the balance is never negative.
C4_BalanceNonNegative == get_balance(file) >= 0

\* C5: every position satisfies avg_cost * shares = total_invested, here
\* up to the rounding of the one division that computed avg_cost.
C5_CostBasis ==
    \A s \in DOMAIN PostData.positions :
        LET p == PostData.positions[s]
        IN  Abs(p.avg_cost * p.shares - p.total_invested * Scale)
                <= Ulp(p.avg_cost) * Abs(p.shares)

\* C6: every position has shares >= 0 and total_invested >= 0, and
\* shares = 0 implies total_invested = 0.
C6_ZeroSharesZeroInvested ==
    \A s \in DOMAIN PostData.positions :
        LET p == PostData.positions[s]
        IN  /\ p.shares >= 0
            /\ p.total_invested >= 0
            /\ p.shares = 0 => p.total_invested = 0

\* C7: a record_buy whose cost the balance covers returns True, lowers the
\* balance by total_cost, raises the slug's shares by shares and its
\* total_invested by total_cost (from zero when the slug had no entry), and
\* leaves every other position as it was.
C7_BuyEffect ==
    (last.op = "buy" /\ last.amount <= PreData.balance)
        => /\ last.ok
           /\ file.kind = "data"
           /\ PostData.balance = FSub(PreData.balance, last.amount)
           /\ DOMAIN PostData.positions = DOMAIN PreData.positions \cup {last.slug}
           /\ PostPos.pos.shares = FAdd(PrePos.pos.shares, last.shares)
           /\ PostPos.pos.total_invested = FAdd(PrePos.pos.total_invested, last.amount)
           /\ OthersUntouched

C7_Witness ==
    /\ last.op = "buy" /\ last.ok
    /\ PrePos.found /\ PrePos.pos.shares > 0 /\ PrePos.pos.total_invested > 0
    /\ last.shares > 0

\* C8: a record_sell of at most the held shares returns True; with
\* invested_in_sold = (shares / held) * total_invested (0 when held is 0)
\* the balance grows by total_proceeds, the shares fall by shares,
\* total_invested falls by invested_in_sold, and the history block carries
\* total_proceeds - invested_in_sold as its profit/loss (to two places).
C8_SellEffect ==
    (last.op = "sell" /\ PrePos.found /\ last.shares <= PrePos.pos.shares)
        => LET old == PrePos.pos
               sold == IF old.shares > 0
                       THEN FMul(FDiv(last.shares, old.shares), old.total_invested)
                       ELSE 0
               block == history[Len(history)]
           IN  /\ last.ok
               /\ PostData.balance = FAdd(PreData.balance, last.amount)
               /\ PostPos.pos.shares = FSub(old.shares, last.shares)
               /\ PostPos.pos.total_invested = FSub(old.total_invested, sold)
               /\ history /= <<>>
               /\ block.kind = "SELL" /\ block.slug = last.slug
               /\ block.profit_loss = Fmt2(FSub(last.amount, sold))
               /\ block.pl_sign = Sign(FSub(last.amount, sold))

C8_Witness ==
    /\ last.op = "sell" /\ last.ok
    /\ last.shares > 0 /\ last.shares < PrePos.pos.shares
    /\ PrePos.pos.total_invested > 0

\* C9: trade_history.txt holds one block per committed mutation.
C9_OneRecordPerMutation == Len(history) = commits

RECURSIVE SumCosts(_)
SumCosts(fills) ==
    IF fills = <<>> THEN 0
    ELSE FAdd(SumCosts(SubSeq(fills, 1, Len(fills) - 1)), fills[Len(fills)].cost)

\* C10: the buy simulation never returns a spend greater than the budget,
\* and the spend is the sum of the fills' costs.
C10_BuyWithinBudget ==
    (sim.pc = "done" /\ sim.info.has)
        => /\ sim.info.spend <= sim.investment
           /\ SumCosts(sim.info.fills) = sim.info.spend


RECURSIVE SumFillShares(_)
SumFillShares(sell_fills) ==
    IF sell_fills = <<>> THEN 0
    ELSE FAdd(SumFillShares(SubSeq(sell_fills, 1, Len(sell_fills) - 1)),
              sell_fills[Len(sell_fills)].shares)

\* C11: the walk over the bids never fills more than the position: the
\* remaining quantity never goes below zero and the fill sizes, added up as
\* the program adds amounts, are at most the shares it set out to sell.
C11_SellWithinQuantity ==
    (sim.pc = "done" /\ ~sim.plan.raised) =>
        /\ sim.plan.shares_to_sell >= 0
        /\ SumFillShares(sim.plan.sell_fills) <= sim.shares

Shares(f, slug) == get_position(f, slug).pos.shares
Armed(slug) == slug \in DOMAIN sell_timers
BuyStep(slug) == commits' = commits + 1 /\ last'.op = "buy" /\ last'.slug = slug
SellStep(slug) == commits' = commits + 1 /\ last'.op = "sell" /\ last'.slug = slug

\* C12: a buy by main that succeeds for a token with no timer starts its
\* timer at the time of the buy, and a token's timer comes into being only
\* in a step that is such a successful buy.
C12_ArmOnBuy ==
    [][\A slug \in Slugs :
          /\ (BuyStep(slug) /\ ~Armed(slug)) =>
                 (slug \in DOMAIN sell_timers' /\ sell_timers'[slug] = now)
          /\ (~Armed(slug) /\ slug \in DOMAIN sell_timers') => BuyStep(slug)]_vars

C12_Witness ==
    /\ ev.kind = "bought" /\ ~ev.armed /\ ev.at > 0
    /\ Armed(ev.slug) /\ sell_timers[ev.slug] = ev.at
    /\ last.op = "buy" /\ last.ok /\ last.slug = ev.slug

\* C13: after main has handled a new ping for a token whose timer was
\* running and whose position had shares, the token's timer is running
\* from the time of that handling.
C13_SignalResets ==
    (ev.kind \in {"signal_no_book", "reset", "detected"} /\ ev.armed /\ ev.held) =>
        (Armed(ev.slug) /\ sell_timers[ev.slug] = ev.at)

\* C14: main sells a token only in a step at which the time since the
\* token's timer was last started or reset is at least sell_timeout.
C14_SellOnlyAfterTimeout ==
    [][\A slug \in Slugs :
          SellStep(slug) => (Armed(slug) /\ now - sell_timers[slug] >= sell_timeout)]_vars

C14_Witness ==
    /\ ev.kind = "sold" /\ ev.armed /\ ev.armed_at > 0
    /\ ev.at - ev.armed_at >= sell_timeout
    /\ last.op = "sell" /\ last.ok /\ last.slug = ev.slug

\* C15: when a token's timer has run out and the sale is recorded, the
\* timer is gone, the position has zero shares and zero total_invested, and
\* the balance is the balance before plus the proceeds of the walk.
C15_LiquidationEffect ==
    ev.kind = "sold" =>
        /\ last.op = "sell" /\ last.ok /\ last.slug = ev.slug
        /\ last.amount = ev.proceeds /\ last.shares = ev.shares
        /\ ~Armed(ev.slug)
        /\ PostPos.found /\ PostPos.pos.shares = 0 /\ PostPos.pos.total_invested = 0
        /\ PostData.balance = FAdd(PreData.balance, ev.proceeds)

C15_Witness ==
    /\ ev.kind = "sold" /\ ev.armed /\ ev.proceeds > 0 /\ ev.shares > 0
    /\ ~Armed(ev.slug) /\ PostPos.pos.shares = 0
    /\ PostData.balance > PreData.balance

\* C16: after a liquidation attempt that failed (no book, or record_sell
\* returned False) the token's timer is still running as it was.
C16_FailedLiquidationKeepsTimer ==
    ev.kind \in {"sell_no_book", "sell_failed"} =>
        (Armed(ev.slug) /\ sell_timers[ev.slug] = ev.armed_at)

C18_TimerImpliesShares ==
    \A slug \in DOMAIN sell_timers : Shares(file, slug) > 0

C18_Witness ==
    /\ Armed("x") /\ Shares(file, "x") > 0
    /\ ~Armed("y") /\ Shares(file, "y") = 0 /\ last.op = "sell" /\ last.slug = "y"

\* One whole timer check over the tokens from the i-th on, with the books
\* its fetches return; an exception ends the check and the process.
RECURSIVE timer_pass(_, _, _, _, _)
timer_pass(f, timers, books, i, t) ==
    IF i > Len(Tokens) THEN [file |-> f, timers |-> timers, raised |-> FALSE]
    ELSE LET out == on_timer(f, timers, Tokens[i], books[i], t)
         IN  IF out.kind = "raised"
             THEN [file |-> f, timers |-> timers, raised |-> TRUE]
             ELSE timer_pass(file_after(f, out), out.timers, books, i + 1, t)

\* The timer check run again from where a first check ended, at the same
\* time: where it ends for each way its fetches can go.
second_pass(once, t) ==
    {timer_pass(once.file, once.timers, second, 1, t) :
         second \in [1..Len(Tokens) -> fetch_orderbook]}

\* C19: where main starts its timer check, a second timer check right
\* after the first, at the same time and with no ping in between, leaves
\* balance.yaml and the timers as the first left them, whatever the fetches
\* of either check return.
C19_TimerCheckIdempotent ==
    (loop.pc = "timers" /\ loop.idx = 1) =>
        \A once \in second_pass([file |-> file, timers |-> sell_timers], now) :
            ~once.raised =>
                \A twice \in second_pass(once, now) :
                    twice.file = once.file /\ twice.timers = once.timers

C19_Witness ==
    /\ loop.pc = "timers" /\ loop.idx = 2
    /\ ev.kind = "sold" /\ ev.slug = "y" /\ ev.at = now
    /\ ~Armed("y") /\ Shares(file, "y") = 0

\* C20: main makes no record_buy call for a token whose position has
\* shares: handling a ping for such a token leaves balance.yaml and the
\* trade history as they were, so shares only ever go up from zero.
C20_NoBuyWhileHeld ==
    [][\A slug \in Slugs :
          /\ (Shares(file, slug) > 0 /\ loop.pc = "signal" /\ Tokens[loop.idx] = slug) =>
                 (file' = file /\ history' = history /\ last' = last)
          /\ Shares(file', slug) > Shares(file, slug) => Shares(file, slug) = 0]_vars

C20_Witness ==
    /\ ev.kind = "reset" /\ ev.held /\ ev.armed /\ ev.at > ev.armed_at
    /\ Shares(file, ev.slug) = ev.shares /\ sell_timers[ev.slug] = ev.at

\* C21: every record_buy call that main makes succeeds, with a cost that is
\* at most the smaller of the configured investment and the balance read
\* for it, and leaves a balance that is not negative.
C21_EngineBuyNeverFails ==
    last.op = "buy" =>
        /\ last.ok
        /\ last.amount <= Min(config.investment, get_balance(last.pre))
        /\ get_balance(file) >= 0

\* balance.yaml after the calls of the callers in `order`, one after the
\* other, from file f.
RECURSIVE serial(_, _)
serial(f, order) ==
    IF order = <<>> THEN f
    ELSE LET r == record_on(f, callers.call[Head(order)])
         IN  serial(IF r.ok THEN save_balance(r.data) ELSE f, Tail(order))

\* C22: when two concurrent ledger calls have both returned, the balance
\* and positions in balance.yaml are those that the two calls leave when
\* run one after the other, in one order or the other.
C22_Serializable ==
    (\A c \in Callers : callers.call[c].pc = "done") =>
        \E order \in {<<1, 2>>, <<2, 1>>} :
            load_balance(file) = load_balance(serial(callers.start, order))

\* C23: the count main reads is never below the number of pings handled,
\* it is never below a count main has already seen, and when no handler is
\* in flight it is the number of pings handled.
C23_CountIsPingsHandled ==
    /\ ping_data.count >= handlers.handled
    /\ ping_data.count >= loop.last_seen_count
    /\ (\A h \in Handlers : handlers.h[h].pc = "idle") =>
           ping_data.count = handlers.handled

\* C24: after a ledger call that succeeded, get_balance and get_position
\* read from balance.yaml exactly the balance and the position the call
\* computed and wrote (no position when the call deleted it).
C24_ReadAfterWrite ==
    (last.ok /\ ~last.stopped) =>
        LET data == record_on(last.pre, last).data
        IN  /\ get_balance(file) = data.balance
            /\ get_position(file, last.slug) =
                   IF last.slug \in DOMAIN data.positions
                   THEN [found |-> TRUE, pos |-> data.positions[last.slug]]
                   ELSE [found |-> FALSE, pos |-> ZeroPosition]

\* A buy was written whose average cost needs more than one decimal.
C24_Witness ==
    /\ last.ok
    /\ last.op = "buy"
    /\ file.kind = "data"
    /\ file.positions[last.slug].avg_cost.k > 1

\* C25: when the last token of a signal round got no book from its fetch,
\* the round does not consume the signal: the count main remembers stays
\* below the ping count, so that the next iteration buys again without a
\* new ping.
C25_FailedFetchKeepsSignal ==
    (ev.kind = "signal_no_book" /\ loop.pc /= "signal") =>
        loop.last_seen_count < ping_data.count

\* C26: no book ends main's loop: whatever levels a fetched book holds, on
\* the buy path and on the sell path, main is still running after the step
\* that used the book.
C26_MalformedLevelNotFatal ==
    running /\ ev.kind /= "raised"

\* C27: a ledger call that finds balance.yaml present and without content
\* fails and leaves the file as it is.
C27_EmptyFileFailsClosed ==
    (last.op /= "none" /\ last.pre.kind = "empty") =>
        (~last.ok /\ file = last.pre)

\* C28: after a ledger call during which the process was stopped,
\* balance.yaml is either the file the call found or the file the call
\* writes when it runs to its return.
C28_StopLeavesPreOrPost ==
    last.stopped =>
        \/ file = last.pre
        \/ file = save_balance(record_on(last.pre, last).data)

\* The budget left before fill number i: the budget less the costs of the
\* fills before it, subtracted one by one.
RECURSIVE RemainingBefore(_, _, _)
RemainingBefore(budget, fills, i) ==
    IF i = 1 THEN budget
    ELSE FSub(RemainingBefore(budget, fills, i - 1), fills[i - 1].cost)

\* C29: the fills of a buy plan go through the usable asks from the
\* cheapest up; each takes the smaller of the level's size and the budget
\* left divided by the price; and a level is filled only when every
\* strictly cheaper level has been taken in full.
C29_GreedyBestPriceFirst ==
    (sim.pc = "done" /\ sim.info.has) =>
        LET levels == sort_asks(filter_asks(sim.asks))
            fills == sim.info.fills
        IN  /\ Len(fills) <= Len(levels)
            /\ \A i \in 1..Len(fills) :
                   /\ fills[i].price = levels[i].price
                   /\ i > 1 => fills[i - 1].price <= fills[i].price
                   /\ fills[i].shares =
                          Min(levels[i].size,
                              FDiv(RemainingBefore(sim.investment, fills, i),
                                   levels[i].price))
                   /\ \A j \in 1..(i - 1) :
                          levels[j].price < levels[i].price =>
                              fills[j].shares = levels[j].size

\* What it costs to take every level in full: price times size, added up
\* from the cheapest level as the walk adds costs.
RECURSIVE BookCost(_)
BookCost(levels) ==
    IF levels = <<>> THEN 0
    ELSE FAdd(BookCost(SubSeq(levels, 1, Len(levels) - 1)),
              FMul(levels[Len(levels)].size, levels[Len(levels)].price))

\* C30: with a budget above zero and at least one usable ask, the buy plan
\* spends the smaller of the budget and the cost of all the usable asks.
C30_SpendIsMinBudgetBook ==
    (sim.pc = "done" /\ sim.investment > 0 /\ filter_asks(sim.asks) /= <<>>) =>
        /\ sim.info.has
        /\ sim.info.spend =
               Min(sim.investment, BookCost(sort_asks(filter_asks(sim.asks))))

\* The quantity left before fill number i of a sell walk: the quantity
\* less the sizes of the fills before it, subtracted one by one.
RECURSIVE QuantityBefore(_, _, _)
QuantityBefore(quantity, sell_fills, i) ==
    IF i = 1 THEN quantity
    ELSE FSub(QuantityBefore(quantity, sell_fills, i - 1), sell_fills[i - 1].shares)

RECURSIVE TotalBidSize(_)
TotalBidSize(levels) ==
    IF levels = <<>> THEN 0
    ELSE FAdd(TotalBidSize(SubSeq(levels, 1, Len(levels) - 1)),
              levels[Len(levels)].size)

RECURSIVE SumProceeds(_)
SumProceeds(sell_fills) ==
    IF sell_fills = <<>> THEN 0
    ELSE FAdd(SumProceeds(SubSeq(sell_fills, 1, Len(sell_fills) - 1)),
              FMul(sell_fills[Len(sell_fills)].shares,
                   sell_fills[Len(sell_fills)].price))

\* C31: the sell walk goes through the bids from the highest price down,
\* takes at each the smaller of the level's size and the quantity left,
\* stops when the quantity or the bids run out; the sizes filled add up to
\* the smaller of the quantity and the total size of the bids, and the
\* proceeds are the sum of price times size filled.  Stated for bids whose
\* prices and sizes are all above zero.
C31_SellWalk ==
    (/\ sim.pc = "done"
     /\ ~sim.plan.raised
     /\ \A i \in 1..Len(sim.bids) : sim.bids[i].price > 0 /\ sim.bids[i].size > 0) =>
        LET levels == sort_bids(sim.bids)
            fills == sim.plan.sell_fills
        IN  /\ Len(fills) <= Len(levels)
            /\ \A i \in 1..Len(fills) :
                   /\ fills[i].price = levels[i].price
                   /\ i > 1 => fills[i - 1].price >= fills[i].price
                   /\ fills[i].shares =
                          Min(levels[i].size, QuantityBefore(sim.shares, fills, i))
            /\ Len(fills) = Len(levels) \/ sim.plan.shares_to_sell <= 0
            /\ SumFillShares(fills) = Min(sim.shares, TotalBidSize(levels))
            /\ sim.plan.total_proceeds = SumProceeds(fills)

\* C32: where main is about to run the timer check of a token, whatever
\* book the fetch returns: if the check sells and the bids do not cover the
\* shares held, the call is a record_sell of all the shares held with the
\* proceeds of the part filled, it succeeds, and afterwards the token's
\* shares are 0 and the balance is the balance before plus those proceeds.
C32_PartialFillSellsAll ==
    (running /\ loop.pc = "timers") =>
        \A orderbook_data \in Books :
            LET slug == Tokens[loop.idx]
                held == Shares(file, slug)
                out == on_timer(file, sell_timers, slug, orderbook_data, now)
                plan == sell_plan(held, orderbook_data.bids)
            IN  (out.op = "sell" /\ plan.shares_to_sell > 0) =>
                    /\ out.kind = "sold"
                    /\ out.shares = held
                    /\ out.amount = plan.total_proceeds
                    /\ Shares(file_after(file, out), slug) = 0
                    /\ get_balance(file_after(file, out)) =
                           FAdd(get_balance(file), plan.total_proceeds)

\* A position was sold against a book with no bids: all its shares are
\* gone and nothing came in.
C32_Witness ==
    /\ ev.kind = "sold"
    /\ ev.shares > 0
    /\ ev.proceeds = 0
    /\ last.op = "sell" /\ last.ok /\ last.shares = ev.shares
    /\ Shares(file, ev.slug) = 0
    /\ get_balance(file) = get_balance(last.pre)

\* C33: where main is about to handle a signal for a token it does not
\* hold, whatever book the fetch returns: if the budget is not above zero
\* or the book has no usable ask, the trade plan has no fills, and main
\* makes no ledger call, leaves balance.yaml as it is, writes no trade
\* record and leaves the timers as they are.
C33_NoTradeNoEffect ==
    (running /\ loop.pc = "signal") =>
        \A orderbook_data \in Books :
            LET slug == Tokens[loop.idx]
                budget == Min(config.investment, get_balance(file))
                out == on_signal(file, sell_timers, slug, orderbook_data, now)
            IN  (/\ Shares(file, slug) <= 0
                 /\ all_parse(orderbook_data.bids)
                 /\ (budget <= 0 \/ filter_asks(orderbook_data.asks) = <<>>)) =>
                    /\ trade_plan(budget, orderbook_data.asks).fills = <<>>
                    /\ out.kind = "no_liquidity"
                    /\ out.op = "none"
                    /\ file_after(file, out) = file
                    /\ out.r.rec = <<>>
                    /\ out.timers = sell_timers

\* main found nothing to buy for a token, with the whole balance spent:
\* the token has no shares and no timer.
C33_Witness ==
    /\ ev.kind = "no_liquidity"
    /\ get_balance(file) <= 0
    /\ Shares(file, ev.slug) = 0
    /\ ~Armed(ev.slug)

\* No ping is still to come or to be handled, and x's timer runs out
\* within the time the model covers.
C34_ArmedAndQuiet ==
    /\ Armed("x")
    /\ Shares(file, "x") > 0
    /\ ping_data.count = MaxPings
    /\ loop.last_seen_count = MaxPings
    /\ sell_timers["x"] + sell_timeout <= MaxTime

\* C34: a token that is held with its timer running, when no further ping
\* arrives, time keeps passing and every fetch of the timer check returns
\* a book, is eventually sold: its shares are 0 and its timer is gone.
C34_EventuallyLiquidated ==
    C34_ArmedAndQuiet ~> (~Armed("x") /\ Shares(file, "x") = 0)

\* C35: every record_sell that main makes is for a token with an entry in
\* balance.yaml and shares above zero, sells exactly the shares of that
\* entry, and succeeds; no timer check ends on 'Failed to record sell'.
C35_EngineSellNeverFails ==
    /\ ev.kind /= "sell_failed"
    /\ last.op = "sell" =>
           /\ last.slug \in DOMAIN PreData.positions
           /\ PrePos.pos.shares > 0
           /\ last.shares = PrePos.pos.shares
           /\ last.ok

\* main has sold a position for proceeds above zero.
C35_Witness ==
    /\ ev.kind = "sold"
    /\ last.op = "sell"
    /\ last.ok
    /\ last.shares = PrePos.pos.shares
    /\ last.amount > 0

\* C36: when a signal round ends, main remembers the count it read at the
\* start of the round; a signal is then pending (the ping count is above
\* the count remembered) exactly when a ping was counted after that read,
\* and the next read of the count with a signal pending starts a round.
C36_PingDuringRoundKept ==
    [][/\ (loop.pc = "signal" /\ loop'.pc = "timers") =>
              /\ loop'.last_seen_count = loop.current_count
              /\ (ping_data'.count > loop'.last_seen_count)
                     <=> (ping_data.count > loop.current_count)
       /\ (loop.pc = "poll" /\ loop'.pc /= "poll"
               /\ ping_data.count > loop.last_seen_count) =>
              loop'.pc = "signal"]_vars

\* A round has ended and a ping counted during it is pending.
C36_Witness ==
    /\ loop.pc = "timers"
    /\ loop.last_seen_count > 0
    /\ loop.last_seen_count = loop.current_count
    /\ ping_data.count > loop.last_seen_count

\* C37: the pings counted before a read of the count are all handled by
\* the one round that the read starts: the round takes the tokens one by
\* one in order, each step makes at most one ledger call, for its token,
\* and changes no other token's timer, and once the round is over every
\* ping that was read is consumed.
C37_PingsCoalesced ==
    [][/\ loop'.pc /= "signal" => loop'.last_seen_count = loop'.current_count
       /\ loop.pc = "signal" =>
              /\ loop'.current_count = loop.current_count
              /\ \/ loop' = loop
                 \/ loop'.pc = "signal" /\ loop'.idx = loop.idx + 1
                 \/ loop'.pc = "timers" /\ loop.idx = Len(Tokens)
              /\ commits' <= commits + 1
              /\ commits' = commits + 1 =>
                     (last'.op = "buy" /\ last'.slug = Tokens[loop.idx])
              /\ \A s \in Slugs \ {Tokens[loop.idx]} :
                     /\ (s \in DOMAIN sell_timers') = (s \in DOMAIN sell_timers)
                     /\ s \in DOMAIN sell_timers => sell_timers'[s] = sell_timers[s]]_vars

\* One round is handling two pings that were counted before its read, and
\* is at its last token.
C37_Witness ==
    /\ loop.pc = "signal"
    /\ loop.idx = Len(Tokens)
    /\ loop.current_count >= loop.last_seen_count + 2

\* Calls of the ledger on each token: a buy and a sell of 3 shares, for an
\* amount the balance covers and for one it does not.
FrameCalls ==
    {[op |-> op, slug |-> slug, shares |-> Lit(3, 1), amount |-> amount] :
         op \in {"buy", "sell"}, slug \in Slugs,
         amount \in {Lit(5, 2), Lit(40, 1)}}

\* balance.yaml after a call on file f.
file_after_call(f, call) ==
    CHOOSE g \in {IF r.ok THEN save_balance(r.data) ELSE f :
                      r \in {record_on(f, call)}} : TRUE

\* A call on one token leaves the entry of every other token in f as it
\* was, whether the call succeeds or fails.
FrameHolds(f) ==
    \A call \in FrameCalls :
        \A s \in Slugs \ {call.slug} :
            get_position(file_after_call(f, call), s) = get_position(f, s)

\* C38: a step of main changes the position and the timer of no token but
\* the one it is handling; and on every balance.yaml that main starts from
\* or writes, a record_buy or record_sell for one token, whether it
\* succeeds or fails, leaves the entry of every other token as it was.
C38_OtherInstrumentsUntouched ==
    [][/\ \A s \in Slugs :
              (\/ (file' /= file /\ get_position(file', s) /= get_position(file, s))
               \/ (s \in DOMAIN sell_timers') /= (s \in DOMAIN sell_timers)
               \/ (s \in DOMAIN sell_timers /\ sell_timers'[s] /= sell_timers[s])) =>
                  (loop.pc \in {"signal", "timers"} /\ s = Tokens[loop.idx])
       /\ (commits = 0 /\ loop.pc = "poll" /\ loop' /= loop) => FrameHolds(file)
       /\ file' /= file => FrameHolds(file')]_vars

\* main has sold x while y is held with its timer running.
C38_Witness ==
    /\ ev.kind = "sold"
    /\ ev.slug = "x"
    /\ Shares(file, "x") = 0
    /\ ~Armed("x")
    /\ Shares(file, "y") > 0
    /\ Armed("y")

\* C39: after main has sold a token its entry is still in balance.yaml, with
\* shares 0; and where main is about to handle a signal for a token whose
\* entry has shares 0, whatever book the fetch returns: if the bids parse,
\* the budget is above zero and the book has a usable ask, main calls
\* record_buy for the token, and if the call succeeds the token has shares
\* again and its timer is started at the present time.
C39_FlatEntryBuysAgain ==
    /\ ev.kind = "sold" =>
           /\ get_position(file, ev.slug).found
           /\ Shares(file, ev.slug) = 0
    /\ (running /\ loop.pc = "signal") =>
           \A orderbook_data \in Books :
               LET slug == Tokens[loop.idx]
                   budget == Min(config.investment, get_balance(file))
                   out == on_signal(file, sell_timers, slug, orderbook_data, now)
               IN  (/\ get_position(file, slug).found
                    /\ Shares(file, slug) = 0
                    /\ all_parse(orderbook_data.bids)
                    /\ budget > 0
                    /\ filter_asks(orderbook_data.asks) /= <<>>) =>
                       /\ out.op = "buy"
                       /\ out.r.ok =>
                              /\ out.kind = "bought"
                              /\ Shares(file_after(file, out), slug) > 0
                              /\ slug \in DOMAIN out.timers
                              /\ out.timers[slug] = now

\* x was bought, sold at the end of its timer and bought again: it is held
\* and its timer runs from the second buy.
C39_Witness ==
    /\ ev.kind = "bought"
    /\ ev.slug = "x"
    /\ \E i \in DOMAIN history : history[i].kind = "SELL" /\ history[i].slug = "x"
    /\ Shares(file, "x") > 0
    /\ Armed("x")
    /\ sell_timers["x"] = ev.at
    /\ ev.at >= sell_timeout

\* The payloads appended so far, in the order of their appends.
Appended == [i \in 1..handlers.appended |-> i]

HandlersIdle == \A h \in Handlers : handlers.h[h].pc = "idle"

\* C40: with every request answered, the payloads list holds at most 50
\* entries and they are the last ones appended, in the order of their
\* appends.
C40_PayloadsAreMostRecent ==
    HandlersIdle =>
        /\ Len(ping_data.payloads) <= KeepPayloads
        /\ ping_data.payloads = last_payloads(Appended)

============================================================================
